---- MODULE Spec2Model ----
(***************************************************************************)
(* The calendar / mail facade of wevcal-fastify-backend.                   *)
(*                                                                         *)
(* Two versions of the server exist: src/server.js ("server": every route  *)
(* wrapped in try/catch, directory lookup in getUser) and                  *)
(* src/unnamed/part_000 ("part000": no try/catch, lookup inlined, no       *)
(* return after an error reply).  A process runs one of them; `variant`    *)
(* says which.  The directory, the calendar provider and the mail provider *)
(* are external: every call to one of them is one atomic step that either  *)
(* succeeds or fails, and the handler runs on to its next await.           *)
(***************************************************************************)
EXTENDS Integers, Sequences, FiniteSets, TLC

\* ---------------------------------------------------------------- bounds
MaxEvents == 4      \* event ids the provider can hand out
MaxTime == 2        \* requested start instants are 1..MaxTime
MaxTypes == 3       \* inspection types in one send-mail request
MaxOtherWrites == 1 \* events another client of the provider may modify

\* ------------------------------------------------------ program constants
MaxResults == 3     \* maxResults of calendar.events.list
StatusNotFound == 404
StatusError == 500

Variants == {"server", "part000"}
\* Two requests, handled concurrently or one after the other.
Reqs == {"r1", "r2"}
EventIds == 1..MaxEvents
Times == 1..MaxTime
TimeZone == "Europe/Brussels"

CalendarRoutes == {"list", "create", "reschedule", "delete"}
MailRoutes == {"send-mail", "notify-certificate-available", "notify-updated-date-visit"}

Usernames == {"alice", "bob", "ghost"}
InspectionTypes == {"electrical", "gas"}

\* The rows of table "gebruikers" whose gebruikersnaam equals `username`.
Directory(username) ==
  CASE username = "alice" -> <<[gebruikersnaam |-> "alice", email |-> "alice@wev.be"]>>
    [] username = "bob"   -> <<[gebruikersnaam |-> "bob", email |-> "bob@wev.be"]>>
    [] OTHER              -> <<>>

Msg(text, arg) == [text |-> text, arg |-> arg]

VARIABLES variant, store, reqs, lastCreated

vars == <<variant, store, reqs, lastCreated>>

\* ------------------------------------------------------------- helpers
Range(s) == {s[i] : i \in DOMAIN s}

Min(a, b) == IF a <= b THEN a ELSE b

When(dateTime, zone) == [dateTime |-> dateTime, timeZone |-> zone]

\* An event alice's calendar holds before the first request; the first one
\* carries no sequence field, the others carry one.
PreloadEvent(k) ==
  [id |-> k, cal |-> "alice@wev.be", summary |-> "bestaand", location |-> "Gent",
   description |-> "oud",
   start |-> When((k + 1) \div 2, "UTC"), end |-> When((k + 1) \div 2, "UTC"),
   sequence |-> IF k = 1 THEN <<>> ELSE <<k>>, colorId |-> ""]

IdleReq ==
  [pc |-> "idle", route |-> "", username |-> "", eventId |-> 0,
   summary |-> "", location |-> "", description |-> "", start |-> 0, end |-> 0,
   types |-> <<>>, user |-> <<>>, retrieved |-> <<>>, submitted |-> <<>>,
   calls |-> <<>>, sends |-> 0, response |-> <<>>, fault |-> FALSE,
   failure |-> "none", err |-> <<>>, afterError |-> FALSE,
   sawCreated |-> <<>>, missing |-> FALSE, mail |-> <<>>]

Init ==
  /\ variant \in Variants
  /\ \E n \in 0..(MaxEvents - 1) : store = {PreloadEvent(k) : k \in 1..n}
  /\ reqs = [r \in Reqs |-> IdleReq]
  /\ lastCreated = <<>>

\* ------------------------------------------------------------ requests
\* The parameters and body a client may send, per route.
\* start and end of a requested slot.
TimePairs == { <<s, s + 1>> : s \in Times }

\* Event ids a client asks for: the first and the last the provider knows.
AskedIds == {1, MaxEvents}

CalendarInputs ==
  { [IdleReq EXCEPT !.pc = "lookup", !.route = "list", !.username = u]
      : u \in Usernames }
  \cup
  { [IdleReq EXCEPT !.pc = "lookup", !.route = "create", !.username = u,
                    !.summary = "keuring", !.location = "Brugge",
                    !.description = "EPC", !.start = t[1], !.end = t[2]]
      : u \in Usernames, t \in TimePairs }
  \cup
  { [IdleReq EXCEPT !.pc = "lookup", !.route = "reschedule", !.username = u,
                    !.eventId = id, !.start = t[1], !.end = t[2]]
      : u \in Usernames, id \in AskedIds, t \in TimePairs }
  \cup
  { [IdleReq EXCEPT !.pc = "lookup", !.route = "delete", !.username = u,
                    !.eventId = id]
      : u \in Usernames, id \in AskedIds }

TypeLists == UNION { [1..n -> InspectionTypes] : n \in 1..MaxTypes }

MailInputs ==
  { [IdleReq EXCEPT !.pc = "mail", !.route = "send-mail", !.types = ts]
      : ts \in TypeLists }
  \cup
  { [IdleReq EXCEPT !.pc = "mail", !.route = rt, !.types = ts]
      : rt \in MailRoutes \ {"send-mail"},
        ts \in { <<"electrical">>, <<"electrical", "gas">> } }

\* A request arrives: the handler destructures params and body.
Receive(r) ==
  /\ reqs[r].pc = "idle"
  /\ r = "r2" => reqs["r1"].pc # "idle"
  /\ \E in \in CalendarInputs \cup MailInputs :
       reqs' = [reqs EXCEPT ![r] = in]
  /\ UNCHANGED <<variant, store, lastCreated>>

\* ------------------------------------------------------------ responses
ErrorBody(status, msg) == [status |-> status, kind |-> "error", val |-> msg]

OkBody(kind, val) == [status |-> 200, kind |-> kind, val |-> val]

\* reply.send (or a value returned to the framework): the first one goes on
\* the wire, a later one finds the reply already sent and changes nothing.
ReplySend(req, resp) ==
  [req EXCEPT !.sends = @ + 1,
              !.response = IF @ = <<>> THEN <<resp>> ELSE @,
              !.afterError = @ \/ (req.response # <<>>)]

\* src/server.js: catch (err) { return reply.code(500).send({error: err.message}) }
ServerCatch(req, msg, kind) ==
  [ReplySend(req, ErrorBody(StatusError, msg))
     EXCEPT !.pc = "done", !.failure = kind, !.err = <<msg>>]

\* src/unnamed/part_000 has no try/catch: a throw rejects the handler's
\* promise.  The framework answers it with its own error body, whose status
\* is the error's own status when it carries one (>= 400) and 500 otherwise,
\* unless a reply was already sent, in which case it only logs the fault.
Part000Throw(req, msg, kind, status) ==
  [req EXCEPT !.pc = "done", !.fault = TRUE,
              !.failure = IF @ = "none" THEN kind ELSE @,
              !.err = IF @ = <<>> THEN <<msg>> ELSE @,
              !.afterError = @ \/ (req.response # <<>>),
              !.response = IF @ = <<>>
                           THEN <<[status |-> status, kind |-> "framework", val |-> msg]>>
                           ELSE @]

\* ------------------------------------------------------- user directory
\* supabase...eq("gebruikersnaam", username).single(): {data, error}.  The
\* query may fail; with no row, single() reports an error (data null); an
\* outcome with neither error nor data is kept as well.
SingleQueryOutcomes(username) ==
  LET rows == Directory(username) IN
  { [error |-> TRUE, isNull |-> TRUE, rows |-> <<>>, unavailable |-> TRUE] }
  \cup
  ( IF Len(rows) = 1
    THEN { [error |-> FALSE, isNull |-> FALSE, rows |-> rows, unavailable |-> FALSE] }
    ELSE { [error |-> TRUE, isNull |-> TRUE, rows |-> <<>>, unavailable |-> FALSE],
           [error |-> FALSE, isNull |-> TRUE, rows |-> <<>>, unavailable |-> FALSE] } )

\* supabase...eq("gebruikersnaam", username): {data, error}, data an array
\* of rows, or null when the query failed.
QueryOutcomes(username) ==
  { [error |-> TRUE, isNull |-> TRUE, rows |-> <<>>, unavailable |-> TRUE],
    [error |-> FALSE, isNull |-> FALSE, rows |-> Directory(username),
     unavailable |-> FALSE] }

\* What really went wrong in a lookup: the store was unreachable, or it
\* holds no record of the username.
LookupFailure(q) ==
  IF q.unavailable THEN "DirectoryUnavailable" ELSE "UserNotFound"

\* getUser of src/server.js, on the query's outcome.
GetUser(username, q) ==
  IF q.error THEN [thrown |-> TRUE, msg |-> Msg("Database error", ""), user |-> <<>>]
  ELSE IF q.isNull
       THEN [thrown |-> TRUE, msg |-> Msg("User not found", username), user |-> <<>>]
       ELSE [thrown |-> FALSE, msg |-> Msg("", ""), user |-> <<q.rows[1]>>]

\* src/server.js: const user = await getUser(username), inside the try.
LookupServer(r) ==
  /\ variant = "server"
  /\ reqs[r].pc = "lookup"
  /\ \E q \in SingleQueryOutcomes(reqs[r].username) :
       LET g == GetUser(reqs[r].username, q) IN
       reqs' = [reqs EXCEPT ![r] =
                  IF g.thrown
                  THEN ServerCatch(@, g.msg, LookupFailure(q))
                  ELSE [@ EXCEPT !.user = g.user, !.pc = "call"]]
  /\ UNCHANGED <<variant, store, lastCreated>>

\* src/unnamed/part_000: if (error) { reply.code(500).send(...) }  -- no return
Part000IfError(req, q) ==
  IF q.error
  THEN [ReplySend(req, ErrorBody(StatusError, Msg("Datebase error", "")))
          EXCEPT !.failure = LookupFailure(q), !.err = <<Msg("Datebase error", "")>>]
  ELSE req

\* if (!data || data.length === 0) { reply.code(404).send(...) }  -- no return
Part000IfNoData(req, q) ==
  IF q.isNull \/ Len(q.rows) = 0
  THEN [ReplySend(req, ErrorBody(StatusNotFound, Msg("User not found", req.username)))
          EXCEPT !.failure = IF @ = "none" THEN LookupFailure(q) ELSE @,
                 !.err = IF @ = <<>> THEN <<Msg("User not found", req.username)>> ELSE @]
  ELSE req

\* Mutant of FirstRow: reading the first row of no rows yields undefined
\* instead of throwing.
FirstRowUndefined(q) ==
  IF q.isNull \/ Len(q.rows) = 0
  THEN [thrown |-> FALSE, user |-> <<[gebruikersnaam |-> "undefined", email |-> "undefined"]>>]
  ELSE [thrown |-> FALSE, user |-> <<q.rows[1]>>]

\* data[0].email: a TypeError when data is null or holds no row.
FirstRow(q) ==
  IF q.isNull \/ Len(q.rows) = 0
  THEN [thrown |-> TRUE, user |-> <<>>]
  ELSE [thrown |-> FALSE, user |-> <<q.rows[1]>>]

\* src/unnamed/part_000: the lookup inlined in each calendar route.
LookupPart000(r) ==
  /\ variant = "part000"
  /\ reqs[r].pc = "lookup"
  /\ \E q \in QueryOutcomes(reqs[r].username) :
       LET afterIfs == Part000IfNoData(Part000IfError(reqs[r], q), q)
           first == FirstRow(q)
       IN reqs' = [reqs EXCEPT ![r] =
                     IF first.thrown
                     THEN Part000Throw(afterIfs, Msg("TypeError", "data[0]"),
                                       LookupFailure(q), StatusError)
                     ELSE [afterIfs EXCEPT !.user = first.user, !.pc = "call"]]
  /\ UNCHANGED <<variant, store, lastCreated>>

\* ------------------------------------------------------ calendar client
\* Mutant of CalendarIdOf: the calendar id is kept in one variable shared
\* by all requests.
SharedCalendarId(req) ==
  LET resolved == { x \in Reqs : reqs[x].user # <<>> }
  IN reqs[CHOOSE x \in resolved : TRUE].user[1].email

\* calendarId: user.email (src/server.js), data[0].email (part_000).
CalendarIdOf(req) == req.user[1].email

\* The handler issues a provider call: the call and its calendarId.
Called(req, op) ==
  [req EXCEPT !.calls = Append(@, [op |-> op, calendarId |-> CalendarIdOf(req)])]

NotFound == [msg |-> Msg("Not Found", ""), status |-> StatusNotFound]
Transient == [msg |-> Msg("Backend Error", ""), status |-> StatusError]

\* A collaborator's call failed with f: caught and normalised in
\* src/server.js, escaping to the framework in part_000.
Failed(req, f, kind) ==
  IF variant = "server"
  THEN { ServerCatch(req, f.msg, kind) }
  ELSE { Part000Throw(req, f.msg, kind, st) : st \in {StatusError, f.status} }

\* The handler ends with a value for the client.
Finish(req, resp) == [ReplySend(req, resp) EXCEPT !.pc = "done"]

CalEvents(cal) == { e \in store : e.cal = cal }

Found(cal, id) == { e \in store : e.cal = cal /\ e.id = id }

\* events.list({calendarId, maxResults: 3, singleEvents: true, orderBy:
\* "startTime"}): the first MaxResults events by ascending start, events
\* with equal starts in any order.
ListItems(cal) ==
  LET evs == CalEvents(cal)
      k == Min(MaxResults, Cardinality(evs))
  IN { s \in [1..k -> evs] :
         /\ \A i, j \in 1..k :
              i < j => s[i] # s[j] /\ s[i].start.dateTime <= s[j].start.dateTime
         /\ \A e \in evs \ Range(s) :
              \A i \in 1..k : s[i].start.dateTime <= e.start.dateTime }

\* The response of the list route: the items as they are (src/server.js),
\* wrapped as {events: items} (part_000).
ListReply(items) ==
  IF variant = "server" THEN OkBody("events", items) ELSE OkBody("events-wrapped", items)

CallList(r) ==
  /\ reqs[r].pc = "call"
  /\ reqs[r].route = "list"
  /\ LET req == [Called(reqs[r], "list") EXCEPT
                   !.sawCreated = IF lastCreated # <<>>
                                     /\ lastCreated[1].username = reqs[r].username
                                  THEN <<[created |-> lastCreated[1],
                                          held |-> CalEvents(CalendarIdOf(reqs[r]))]>>
                                  ELSE <<>>]
     IN \/ \E items \in ListItems(CalendarIdOf(req)) :
             reqs' = [reqs EXCEPT ![r] = Finish(req, ListReply(items))]
        \/ \E nxt \in Failed(req, Transient, "CalendarOperationFailed") :
             reqs' = [reqs EXCEPT ![r] = nxt]
  /\ UNCHANGED <<variant, store, lastCreated>>

\* Mutant of InsertBody: location and description change places.
InsertBodySwapped(req) ==
  [summary |-> req.summary, location |-> req.description,
   description |-> req.location,
   start |-> When(req.start, TimeZone), end |-> When(req.end, TimeZone)]

\* requestBody of events.insert.
InsertBody(req) ==
  [summary |-> req.summary, location |-> req.location,
   description |-> req.description,
   start |-> When(req.start, TimeZone), end |-> When(req.end, TimeZone)]

FreeIds == { id \in EventIds : \A e \in store : e.id # id }

\* The event the provider stores for an inserted body.
Inserted(cal, body, id) ==
  [id |-> id, cal |-> cal, summary |-> body.summary, location |-> body.location,
   description |-> body.description, start |-> body.start, end |-> body.end,
   sequence |-> <<0>>, colorId |-> ""]

CallInsert(r) ==
  /\ reqs[r].pc = "call"
  /\ reqs[r].route = "create"
  /\ LET req == Called(reqs[r], "insert") IN
     \/ /\ FreeIds # {}
        /\ LET id == CHOOSE i \in FreeIds : \A j \in FreeIds : i <= j
               ev == Inserted(CalendarIdOf(req), InsertBody(req), id)
           IN /\ store' = store \cup {ev}
              /\ reqs' = [reqs EXCEPT ![r] = Finish(req, OkBody("id", id))]
              /\ lastCreated' = <<[username |-> req.username, id |-> id,
                                   summary |-> req.summary, location |-> req.location,
                                   description |-> req.description,
                                   start |-> req.start, end |-> req.end]>>
     \/ /\ \E nxt \in Failed(req, Transient, "CalendarOperationFailed") :
             reqs' = [reqs EXCEPT ![r] = nxt]
        /\ UNCHANGED <<store, lastCreated>>
  /\ UNCHANGED variant

\* events.get of the reschedule route.
CallGet(r) ==
  /\ reqs[r].pc = "call"
  /\ reqs[r].route = "reschedule"
  /\ LET req == Called(reqs[r], "get")
         hit == Found(CalendarIdOf(req), req.eventId)
     IN \/ \E ev \in hit :
             reqs' = [reqs EXCEPT ![r] = [req EXCEPT !.retrieved = <<ev>>, !.pc = "update"]]
        \/ \E f \in (IF hit = {} THEN {NotFound} ELSE {}) \cup {Transient} :
             \E nxt \in Failed(req, f, "CalendarOperationFailed") :
               reqs' = [reqs EXCEPT ![r] = nxt]
  /\ UNCHANGED <<variant, store, lastCreated>>

\* retrievedEvent.sequence || 0
SequenceOrZero(ev) == IF ev.sequence = <<>> THEN 0 ELSE ev.sequence[1]

\* Mutant of UpdatedEventServer: the body is built anew instead of spread
\* from the fetched event, and a field it does not name is lost.
UpdatedEventRebuilt(req, ev) ==
  [ev EXCEPT !.sequence = <<SequenceOrZero(ev) + 1>>,
             !.start = When(req.start, TimeZone),
             !.end = When(req.end, TimeZone),
             !.colorId = ""]

\* updatedEvent of src/server.js: the fetched event with sequence + 1 and
\* the requested start and end.
UpdatedEventServer(req, ev) ==
  [ev EXCEPT !.sequence = <<SequenceOrZero(ev) + 1>>,
             !.start = When(req.start, TimeZone),
             !.end = When(req.end, TimeZone)]

\* updatedEvent of part_000: the fetched event with the requested start and
\* end; sequence is left as fetched.
UpdatedEventPart000(req, ev) ==
  [ev EXCEPT !.start = When(req.start, TimeZone),
             !.end = When(req.end, TimeZone)]

UpdatedEvent(req, ev) ==
  IF variant = "server" THEN UpdatedEventServer(req, ev) ELSE UpdatedEventPart000(req, ev)

\* events.update: the stored event is replaced by the request body.
CallUpdate(r) ==
  /\ reqs[r].pc = "update"
  /\ LET body == UpdatedEvent(reqs[r], reqs[r].retrieved[1])
         req == [Called(reqs[r], "update") EXCEPT !.submitted = <<body>>]
         cal == CalendarIdOf(req)
         hit == Found(cal, req.eventId)
     IN \/ \E old \in hit :
             LET new == [body EXCEPT !.id = req.eventId, !.cal = cal] IN
             /\ store' = (store \ {old}) \cup {new}
             /\ reqs' = [reqs EXCEPT ![r] = Finish(req, OkBody("event", new))]
             /\ lastCreated' = <<>>
        \/ /\ \E f \in (IF hit = {} THEN {NotFound} ELSE {}) \cup {Transient} :
                \E nxt \in Failed(req, f, "CalendarOperationFailed") :
                  reqs' = [reqs EXCEPT ![r] = nxt]
           /\ UNCHANGED <<store, lastCreated>>
  /\ UNCHANGED variant

\* The response of the delete route: {success: true} (src/server.js), the
\* provider's response object (part_000).
DeleteReply ==
  IF variant = "server" THEN OkBody("success", TRUE) ELSE OkBody("provider-response", "")

CallDelete(r) ==
  /\ reqs[r].pc = "call"
  /\ reqs[r].route = "delete"
  /\ LET hit == Found(CalendarIdOf(reqs[r]), reqs[r].eventId)
         req == [Called(reqs[r], "delete") EXCEPT !.missing = (hit = {})]
     IN \/ \E old \in hit :
             /\ store' = store \ {old}
             /\ reqs' = [reqs EXCEPT ![r] = Finish(req, DeleteReply)]
             /\ lastCreated' = <<>>
        \/ /\ \E f \in (IF hit = {} THEN {NotFound} ELSE {Transient}) :
                \E nxt \in Failed(req, f, "CalendarOperationFailed") :
                  reqs' = [reqs EXCEPT ![r] = nxt]
           /\ UNCHANGED <<store, lastCreated>>
  /\ UNCHANGED variant

\* Another client of the calendar provider sets a field of a stored event
\* that the reschedule does not touch.
OtherClient ==
  /\ Cardinality({ e \in store : e.colorId = "blue" }) < MaxOtherWrites
  /\ \E e \in store :
       /\ e.colorId = ""
       /\ store' = (store \ {e}) \cup {[e EXCEPT !.colorId = "blue"]}
  /\ lastCreated' = <<>>
  /\ UNCHANGED <<variant, reqs>>

\* ---------------------------------------------------------- mail client
\* A string made of the parts ts joined by sep, as the sequence of its
\* tokens (no inspection type contains a separator).
JoinWith(ts, sep) ==
  [i \in 1..(2 * Len(ts) - 1) |-> IF i % 2 = 1 THEN ts[(i + 1) \div 2] ELSE sep]

\* String.prototype.replace(pat, rep) with a string pattern: the first
\* occurrence of pat, and only that one, becomes rep.
ReplaceFirst(s, pat, rep) ==
  LET at == { i \in DOMAIN s : s[i] = pat } IN
  IF at = {} THEN s
  ELSE LET first == CHOOSE i \in at : \A j \in at : i <= j
       IN [s EXCEPT ![first] = rep]

\* The type as the html of each template states it.
TypeText(req) ==
  CASE req.route = "send-mail" -> ReplaceFirst(JoinWith(req.types, "/"), "/", " + ")
    [] req.route = "notify-certificate-available" -> JoinWith(req.types, "/")
    [] OTHER -> JoinWith(req.types, " & ")

\* What the mail routes answer once the mail is sent: a confirmation
\* (src/server.js; send-mail of part_000); the notify routes of part_000
\* send no reply at all.
MailDone(req) ==
  IF variant = "server" \/ req.route = "send-mail"
  THEN Finish(req, OkBody("message", "Email sent successfully"))
  ELSE [req EXCEPT !.pc = "done"]

MailFailure == [msg |-> Msg("Mail delivery failed", ""), status |-> StatusError]

\* resend.emails.send / transporter.sendMail with the rendered html.
SendMail(r) ==
  /\ reqs[r].pc = "mail"
  /\ LET req == [reqs[r] EXCEPT !.mail = <<[template |-> reqs[r].route,
                                            typeText |-> TypeText(reqs[r])]>>]
     IN \/ reqs' = [reqs EXCEPT ![r] = MailDone(req)]
        \/ \E nxt \in Failed(req, MailFailure, "MailDeliveryFailed") :
             reqs' = [reqs EXCEPT ![r] = nxt]
  /\ UNCHANGED <<variant, store, lastCreated>>

Next ==
  \/ \E r \in Reqs :
       \/ Receive(r)
       \/ LookupServer(r)
       \/ LookupPart000(r)
       \/ CallList(r)
       \/ CallInsert(r)
       \/ CallGet(r)
       \/ CallUpdate(r)
       \/ CallDelete(r)
       \/ SendMail(r)
  \/ OtherClient

Spec == Init /\ [][Next]_vars

\* ================================================================ claims
Done(r) == reqs[r].pc = "done"

Answer(r) == reqs[r].response[1]

\* C1: a calendar route asked for a username the directory holds no record
\* of answers with status 404 and a body {error: message}.
C1_UnknownUserGets404 ==
  \A r \in Reqs :
    (Done(r) /\ reqs[r].route \in CalendarRoutes /\ reqs[r].failure = "UserNotFound")
      => /\ reqs[r].response # <<>>
         /\ Answer(r).status = StatusNotFound
         /\ Answer(r).kind = "error"

\* C2: in both versions, a request whose directory lookup yielded no record
\* or failed never calls the calendar provider.
C2_NoProviderCallAfterFailedLookup ==
  \A r \in Reqs :
    reqs[r].failure \in {"UserNotFound", "DirectoryUnavailable"}
      => reqs[r].calls = <<>>

\* C2's case: part_000 has answered an unknown user, its handler has ended
\* and it has called nothing, while the other request did reach the provider.
C2_Witness ==
  /\ variant = "part000"
  /\ \E r, o \in Reqs :
       /\ Done(r) /\ reqs[r].failure = "UserNotFound"
       /\ reqs[r].route \in CalendarRoutes /\ reqs[r].calls = <<>>
       /\ reqs[o].calls # <<>>

\* C3: in src/server.js a failed request ends with exactly one response,
\* {error: message}, with status 404 for user-not-found and 500 otherwise,
\* and no fault escapes the handler.
C3_FailuresAreNormalised ==
  variant = "server" =>
    \A r \in Reqs :
      (Done(r) /\ reqs[r].failure # "none")
        => /\ reqs[r].sends = 1
           /\ ~reqs[r].fault
           /\ reqs[r].response # <<>>
           /\ Answer(r).kind = "error"
           /\ Answer(r).val = reqs[r].err[1]
           /\ Answer(r).status =
                (IF reqs[r].failure = "UserNotFound" THEN StatusNotFound ELSE StatusError)

\* The fields of an event that a reschedule has no business with.
Unrelated(e) ==
  [id |-> e.id, cal |-> e.cal, summary |-> e.summary, location |-> e.location,
   description |-> e.description, colorId |-> e.colorId]

\* C4: the body a reschedule submits has the fetched event's sequence plus
\* one (a missing one counting as 0), the requested start and end in
\* Europe/Brussels, and every other field as fetched.
C4_RescheduleBody ==
  \A r \in Reqs :
    reqs[r].submitted # <<>> =>
      LET body == reqs[r].submitted[1]
          ev == reqs[r].retrieved[1]
      IN /\ body.sequence = <<SequenceOrZero(ev) + 1>>
         /\ body.start = When(reqs[r].start, TimeZone)
         /\ body.end = When(reqs[r].end, TimeZone)
         /\ Unrelated(body) = Unrelated(ev)

\* The step in which request r's events.update succeeds.
UpdateWrites(r) ==
  /\ reqs[r].pc = "update"
  /\ reqs'[r].pc = "done"
  /\ reqs'[r].failure = "none"

Kept(old) ==
  \E new \in store' :
    new.id = old.id /\ new.cal = old.cal /\ Unrelated(new) = Unrelated(old)

\* C5 as stated: whatever another client wrote to the event between the
\* reschedule's fetch and its write, the write keeps every field unrelated
\* to start/end/sequence as the provider held it.
C5_NoLostField ==
  [][\A r \in Reqs :
       UpdateWrites(r) =>
         \A old \in Found(CalendarIdOf(reqs[r]), reqs[r].eventId) : Kept(old)]_vars

\* C5 amended: the write keeps every unrelated field provided no client
\* changed one between the reschedule's fetch and its write.
C5_NoLostFieldWithoutInterference ==
  [][\A r \in Reqs :
       UpdateWrites(r) =>
         \A old \in Found(CalendarIdOf(reqs[r]), reqs[r].eventId) :
           Unrelated(old) = Unrelated(reqs[r].retrieved[1]) => Kept(old)]_vars

\* C5's case: a reschedule fetched an event another client had coloured,
\* wrote it back, and the stored event still carries the colour.
C5_Witness ==
  \E r \in Reqs :
    /\ Done(r) /\ reqs[r].route = "reschedule" /\ reqs[r].failure = "none"
    /\ reqs[r].retrieved[1].colorId = "blue"
    /\ \E e \in Found(CalendarIdOf(reqs[r]), reqs[r].eventId) :
         e.colorId = "blue" /\ e.start = When(reqs[r].start, TimeZone)

\* C6: a delete of an event id the provider does not know answers 500 with
\* {error: the provider's message}; {success: true} is sent only when the
\* provider's delete succeeded.
C6_DeleteOfMissingEvent ==
  \A r \in Reqs :
    /\ (Done(r) /\ reqs[r].route = "delete" /\ reqs[r].missing)
         => /\ reqs[r].response # <<>>
            /\ Answer(r).status = StatusError
            /\ Answer(r).kind = "error"
            /\ Answer(r).val = NotFound.msg
    /\ (reqs[r].response # <<>> /\ Answer(r).kind = "success")
         => reqs[r].failure = "none" /\ ~reqs[r].missing

\* C7: the mail of send-mail states the types joined by " + ": no "/" of
\* the type is left.
C7_EverySeparatorRendered ==
  \A r \in Reqs :
    (reqs[r].route = "send-mail" /\ reqs[r].mail # <<>>)
      => /\ reqs[r].mail[1].typeText = JoinWith(reqs[r].types, " + ")
         /\ \A i \in DOMAIN reqs[r].mail[1].typeText : reqs[r].mail[1].typeText[i] # "/"

\* A listed event carries what the create request asked for.
Matches(e, c) ==
  /\ e.summary = c.summary
  /\ e.location = c.location
  /\ e.description = c.description
  /\ e.start = When(c.start, TimeZone)
  /\ e.end = When(c.end, TimeZone)

\* Request r listed a calendar right after a successful create on it.
ListedAfterCreate(r) ==
  /\ Done(r) /\ reqs[r].route = "list" /\ reqs[r].failure = "none"
  /\ reqs[r].sawCreated # <<>>

ListsCreated(r) ==
  \E i \in DOMAIN Answer(r).val : Matches(Answer(r).val[i], reqs[r].sawCreated[1].created)

\* The events of the calendar, other than the created one, that start no
\* later than it.
NotLater(r) ==
  LET c == reqs[r].sawCreated[1].created IN
  { o \in reqs[r].sawCreated[1].held : o.id # c.id /\ o.start.dateTime <= c.start }

\* C8 as stated: a list right after a successful create contains the
\* created event, whatever the calendar held.
C8_CreateThenList ==
  \A r \in Reqs : ListedAfterCreate(r) => ListsCreated(r)

\* C8 amended: it does when fewer than maxResults (3) other events of the
\* calendar start at or before the created one.
C8_CreateThenListWithinMaxResults ==
  \A r \in Reqs :
    (ListedAfterCreate(r) /\ Cardinality(NotLater(r)) < MaxResults)
      => ListsCreated(r)

\* C8's case: the calendar holds more than maxResults events and the list
\* still returns the one just created.
C8_Witness ==
  \E r \in Reqs :
    /\ ListedAfterCreate(r)
    /\ Cardinality(reqs[r].sawCreated[1].held) > MaxResults
    /\ Cardinality(NotLater(r)) < MaxResults
    /\ ListsCreated(r)

\* C9: every provider call is made after the request's own lookup returned
\* a record, with that record's email as calendarId.
C9_CallsUseOwnCalendar ==
  \A r \in Reqs :
    \A i \in DOMAIN reqs[r].calls :
      /\ reqs[r].user # <<>>
      /\ Directory(reqs[r].username) # <<>>
      /\ reqs[r].user[1] = Directory(reqs[r].username)[1]
      /\ reqs[r].calls[i].calendarId = Directory(reqs[r].username)[1].email

\* C9's case: two requests for different usernames are in flight together:
\* one has fetched and not yet updated, the other has called the provider
\* in between.
C9_Witness ==
  /\ reqs["r1"].pc = "update"
  /\ reqs["r2"].calls # <<>>
  /\ reqs["r1"].username # reqs["r2"].username
  /\ reqs["r1"].calls[1].calendarId # reqs["r2"].calls[1].calendarId

\* C10: in part_000 a calendar route executes at most one reply.send and
\* runs nothing once an error reply is sent.
C10_ReturnsOnFirstFailure ==
  variant = "part000" =>
    \A r \in Reqs :
      reqs[r].route \in CalendarRoutes
        => reqs[r].sends <= 1 /\ ~reqs[r].afterError

====
